---- MODULE Spec2Model ----
(***************************************************************************)
(* Model of python_app/js_linux.py: the joystick event pipeline.           *)
(*                                                                         *)
(*   js_thread  (Device Reader)  reads 8-byte js_event records from jsdev  *)
(*              and puts them into `pipeline` (queue.Queue(maxsize=10)).   *)
(*   consumer   (Consumer Loop)  takes records, unpacks them, updates the  *)
(*              flags accelerate/decelerate/left/right and then runs the   *)
(*              integration step that sends commands to the car.           *)
(*   sig_handler                 sets the threading.Event `event`.         *)
(*                                                                         *)
(* current_speed is a Python float.  It is modelled as an exact fraction   *)
(* <<numerator, denominator>> in lowest terms; every comparison the code   *)
(* makes (>= max_speed, <= 200) is made on the fraction.  Within the       *)
(* number of steps explored the accelerate step is exact in binary         *)
(* floating point too; the decelerate step differs from it by rounding in  *)
(* the last place only.                                                    *)
(*                                                                         *)
(* In Next the car (py_overdrive_sdk.Overdrive) accepts every command and  *)
(* returns, and every read returns a whole record or nothing; commands     *)
(* that raise, reads that raise and short reads are separate actions of    *)
(* GatewayNext, ReadFaultNext and ShortReadNext.  The dictionaries         *)
(* axis_states and button_states are only written, never read, and are     *)
(* left out.  took, ngot and nsteps record                                 *)
(* the run (which branch the iteration took, how many records were taken,  *)
(* how many steps changed the speed); the program does not hold them.      *)
(***************************************************************************)
EXTENDS Integers, Sequences, FiniteSets, TLC

VARIABLES
    event,          \* threading.Event: TRUE when set
    pipeline,       \* queue.Queue(maxsize=10): sequence of records, head first
    jsdev_open,     \* the device file object jsdev is open
    device,         \* the joystick: [events, limit], what it can still deliver
    nread,          \* number of records jsdev.read(8) has returned so far
    js_pc,          \* js_thread's position
    js_evbuf,       \* js_thread's local evbuf
    c_pc,           \* consumer's position
    evbuf,          \* consumer's local evbuf
    took,           \* the current iteration took a record (the if branch)
    ngot,           \* number of records in_queue.get has returned so far
    current_speed,  \* fraction <<n, d>>
    current_lane,
    accelerate, decelerate, left, right,
    car,            \* the Overdrive object exists (connected)
    cmds,           \* commands sent to the car by the last integration step
    nsteps          \* number of integration steps that changed current_speed

vars == <<event, pipeline, jsdev_open, device, nread, js_pc, js_evbuf,
          c_pc, evbuf, took, ngot, current_speed, current_lane,
          accelerate, decelerate, left, right, car, cmds, nsteps>>

js_vars == <<jsdev_open, nread, js_pc, js_evbuf>>
ctl_vars == <<current_speed, current_lane, accelerate, decelerate, left, right>>
c_vars == <<c_pc, evbuf, took, ngot, ctl_vars, car, cmds, nsteps>>

----------------------------------------------------------------------------
(* Bounds of the exploration. *)

\* records the joystick delivers in a control run
MaxReads == 2
\* integration steps that change current_speed in one run
MaxSteps == 5
\* records the joystick delivers in a queue run (more than the queue holds)
MaxQReads == 12
\* records the joystick delivers in a cancellation run
MaxLReads == 3
\* records the joystick delivers in an integration run
MaxSReads == 2
\* records the joystick delivers in a run with a failing car
MaxGReads == 2
\* records the joystick delivers in a run on the speed
MaxVReads == 2
\* records the joystick delivers in a run of x-axis events
MaxAReads == 3
\* records the joystick delivers in a run of button events
MaxBReads == 3
\* decelerate steps in a row that are followed from one speed
MaxDecelTicks == 7

(* Program constants. *)
QueueMaxsize == 10
max_speed == 3000
InitialSpeed == 400
SnapThreshold == 200
LaneStep == 30
LaneLimit == 100
CmdAcceleration == 2000
AxisScale == 32767
RecordSize == 8

\* The maps the start-up ioctls build for the attached joystick: a stick
\* with axes x, y, z and four buttons.
axis_map == <<"x", "y", "z">>
button_map == <<"trigger", "thumb", "thumb2", "base4">>

----------------------------------------------------------------------------
(* Fractions <<n, d>>, d > 0, in lowest terms.  The arithmetic is written  *)
(* as functions of the operand values, so that an operand is evaluated once. *)

gcd[p \in Nat \X Nat] == IF p[2] = 0 THEN p[1] ELSE gcd[<<p[2], p[1] % p[2]>>]
GCD(a, b) == gcd[<<a, b>>]

Abs(n) == IF n < 0 THEN -n ELSE n

frac[p \in Int \X Nat] == <<p[1] \div GCD(Abs(p[1]), p[2]), p[2] \div GCD(Abs(p[1]), p[2])>>
Frac(n, d) == frac[<<n, d>>]
FromInt(n) == <<n, 1>>

Fractions == Int \X Nat
\* the denominators' least common multiple
lcd[p \in Fractions \X Fractions] == (p[1][2] \div GCD(p[1][2], p[2][2])) * p[2][2]
LCD(a, b) == lcd[<<a, b>>]
\* the numerator of a over the denominator m
scaled[p \in Fractions \X Nat] == p[1][1] * (p[2] \div p[1][2])
Scaled(a, m) == scaled[<<a, m>>]

fadd[p \in Fractions \X Fractions] ==
    Frac(Scaled(p[1], LCD(p[1], p[2])) + Scaled(p[2], LCD(p[1], p[2])), LCD(p[1], p[2]))
FAdd(a, b) == fadd[<<a, b>>]
fsub[p \in Fractions \X Fractions] ==
    Frac(Scaled(p[1], LCD(p[1], p[2])) - Scaled(p[2], LCD(p[1], p[2])), LCD(p[1], p[2]))
FSub(a, b) == fsub[<<a, b>>]
fdivint[p \in Fractions \X Nat] == Frac(p[1][1], p[1][2] * p[2])
FDivInt(a, k) == fdivint[<<a, k>>]
fleq[p \in Fractions \X Fractions] ==
    Scaled(p[1], LCD(p[1], p[2])) <= Scaled(p[2], LCD(p[1], p[2]))
FLeq(a, b) == fleq[<<a, b>>]
FGeq(a, b) == FLeq(b, a)
\* an int(x) that rounds away from zero
ToIntUp(a) ==
    IF a[1] % a[2] = 0 THEN a[1] \div a[2]
    ELSE IF a[1] >= 0 THEN a[1] \div a[2] + 1 ELSE -((-a[1]) \div a[2]) - 1

\* int(x): truncation toward zero
ToInt(a) == IF a[1] >= 0 THEN a[1] \div a[2] ELSE -((-a[1]) \div a[2])

----------------------------------------------------------------------------
(* The 8-byte js_event record, struct format 'IhBB', native (little-endian) *)
(* byte order: u32 time, s16 value, u8 type, u8 number.                     *)

JsEvent(time_val, value, type, number) ==
    LET u == IF value < 0 THEN value + 65536 ELSE value
    IN  << time_val % 256, (time_val \div 256) % 256,
           (time_val \div 65536) % 256, (time_val \div 16777216) % 256,
           u % 256, u \div 256, type, number >>

\* struct.unpack('IhBB', evbuf)
unpack(b) ==
    LET u == b[5] + 256 * b[6]
    IN  [ time_val |-> b[1] + 256 * b[2] + 65536 * b[3] + 16777216 * b[4],
          value    |-> IF u >= 32768 THEN u - 65536 ELSE u,
          type     |-> b[7],
          number   |-> b[8] ]

\* type & mask /= 0 for a one-bit mask
HasBit(type, mask) == (type \div mask) % 2 = 1

JS_EVENT_BUTTON == 1
JS_EVENT_AXIS == 2
JS_EVENT_INIT == 128

----------------------------------------------------------------------------
(* Control state transitions: consumer, lines 208-269. *)

Flags(a, d, l, r) == [accelerate |-> a, decelerate |-> d, left |-> l, right |-> r]

IsButton(ev) == HasBit(ev.type, JS_EVENT_BUTTON)
IsAxis(ev) == HasBit(ev.type, JS_EVENT_AXIS)
ButtonName(ev) == button_map[ev.number + 1]
AxisName(ev) == axis_map[ev.number + 1]
\* fvalue = value / 32767.0
fvalue(ev) == <<ev.value, AxisScale>>

\* the record cannot be decoded or looked up: struct.error / IndexError,
\* neither of which is the ValueError the loop catches
Undecodable(b) ==
    \/ Len(b) # RecordSize
    \/ IsButton(unpack(b)) /\ unpack(b).number + 1 > Len(button_map)
    \/ IsAxis(unpack(b)) /\ unpack(b).number + 1 > Len(axis_map)

\* the "base4 pressed" branch, lines 225-233
IsExitPress(ev) == IsButton(ev) /\ ev.value # 0 /\ ButtonName(ev) = "base4"

\* the button branch in which a thumb press leaves decelerate alone
ApplyButtonKeepDecel(ev, f) ==
    IF ~IsButton(ev) THEN f
    ELSE IF ev.value # 0
         THEN CASE ButtonName(ev) = "thumb"  -> [f EXCEPT !.accelerate = TRUE]
                [] ButtonName(ev) = "thumb2" -> [f EXCEPT !.accelerate = FALSE, !.decelerate = TRUE]
                [] OTHER -> f
         ELSE CASE ButtonName(ev) = "thumb"  -> [f EXCEPT !.accelerate = FALSE, !.decelerate = TRUE]
                [] ButtonName(ev) = "thumb2" -> [f EXCEPT !.accelerate = FALSE, !.decelerate = TRUE]
                [] OTHER -> f

\* the button branch in which the release of thumb only stops accelerating
ApplyButtonCoast(ev, f) ==
    IF ~IsButton(ev) THEN f
    ELSE IF ev.value # 0
         THEN CASE ButtonName(ev) = "thumb"  -> [f EXCEPT !.accelerate = TRUE, !.decelerate = FALSE]
                [] ButtonName(ev) = "thumb2" -> [f EXCEPT !.accelerate = FALSE, !.decelerate = TRUE]
                [] OTHER -> f
         ELSE CASE ButtonName(ev) = "thumb"  -> [f EXCEPT !.accelerate = FALSE]
                [] ButtonName(ev) = "thumb2" -> [f EXCEPT !.accelerate = FALSE, !.decelerate = TRUE]
                [] OTHER -> f

\* lines 213-243
ApplyButton(ev, f) ==
    IF ~IsButton(ev) THEN f
    ELSE IF ev.value # 0
         THEN CASE ButtonName(ev) = "thumb"  -> [f EXCEPT !.accelerate = TRUE, !.decelerate = FALSE]
                [] ButtonName(ev) = "thumb2" -> [f EXCEPT !.accelerate = FALSE, !.decelerate = TRUE]
                [] OTHER -> f
         ELSE CASE ButtonName(ev) = "thumb"  -> [f EXCEPT !.accelerate = FALSE, !.decelerate = TRUE]
                [] ButtonName(ev) = "thumb2" -> [f EXCEPT !.accelerate = FALSE, !.decelerate = TRUE]
                [] OTHER -> f

\* the y branch with an else that leaves the flags alone
ApplyAxisYCoast(ev, f) ==
    IF FGeq(fvalue(ev), <<9, 10>>)
    THEN [f EXCEPT !.accelerate = FALSE, !.decelerate = TRUE]
    ELSE IF FLeq(fvalue(ev), <<-9, 10>>)
    THEN [f EXCEPT !.accelerate = TRUE, !.decelerate = FALSE]
    ELSE f

\* lines 257-269
ApplyAxisY(ev, f) ==
    IF FGeq(fvalue(ev), <<9, 10>>)
    THEN [f EXCEPT !.accelerate = FALSE, !.decelerate = TRUE]
    ELSE IF FLeq(fvalue(ev), <<-9, 10>>)
    THEN [f EXCEPT !.accelerate = TRUE, !.decelerate = FALSE]
    ELSE [f EXCEPT !.accelerate = FALSE, !.decelerate = TRUE]

\* the axis branch in which a centred x value clears left and right
ApplyAxisCentering(ev, f) ==
    IF ~IsAxis(ev) THEN f
    ELSE IF AxisName(ev) = "x" /\ FLeq(fvalue(ev), FromInt(-1))
    THEN [f EXCEPT !.left = TRUE, !.right = FALSE]
    ELSE IF AxisName(ev) = "x" /\ FGeq(fvalue(ev), FromInt(1))
    THEN [f EXCEPT !.right = TRUE, !.left = FALSE]
    ELSE IF AxisName(ev) = "x"
    THEN [f EXCEPT !.left = FALSE, !.right = FALSE]
    ELSE IF AxisName(ev) = "y"
    THEN ApplyAxisY(ev, f)
    ELSE f

\* lines 245-269
ApplyAxis(ev, f) ==
    IF ~IsAxis(ev) THEN f
    ELSE IF AxisName(ev) = "x" /\ FLeq(fvalue(ev), FromInt(-1))
    THEN [f EXCEPT !.left = TRUE, !.right = FALSE]
    ELSE IF AxisName(ev) = "x" /\ FGeq(fvalue(ev), FromInt(1))
    THEN [f EXCEPT !.right = TRUE, !.left = FALSE]
    ELSE IF AxisName(ev) = "y"
    THEN ApplyAxisY(ev, f)
    ELSE f

\* the flags after one decoded event that is not the exit press
ApplyEvent(ev, f) == ApplyAxis(ev, ApplyButton(ev, f))

----------------------------------------------------------------------------
(* Periodic integration: consumer, lines 274-298. *)

\* the step with the sign of the increment slipped
AccelStepSlip(s) ==
    LET t == FSub(s, FDivInt(FSub(FromInt(max_speed), s), 4))
    IN  IF FGeq(t, FromInt(max_speed)) THEN FromInt(max_speed) ELSE t

\* lines 275-277
AccelStep(s) ==
    LET t == FAdd(s, FDivInt(FSub(FromInt(max_speed), s), 4))
    IN  IF FGeq(t, FromInt(max_speed)) THEN FromInt(max_speed) ELSE t

\* the step without the snap to 0
DecelStepNoSnap(s) == FSub(s, FDivInt(s, 3))

\* lines 282-284
DecelStep(s) ==
    LET t == FSub(s, FDivInt(s, 3))
    IN  IF FLeq(t, FromInt(SnapThreshold)) THEN FromInt(0) ELSE t

\* the speed after n accelerate steps in a row from speed p[1]
accel_ticks[p \in Fractions \X Nat] ==
    IF p[2] = 0 THEN p[1] ELSE AccelStep(accel_ticks[<<p[1], p[2] - 1>>])
AccelTicks(s, n) == accel_ticks[<<s, n>>]

\* the speed after n decelerate steps in a row from speed p[1]
decel_ticks[p \in Fractions \X Nat] ==
    IF p[2] = 0 THEN p[1] ELSE DecelStep(decel_ticks[<<p[1], p[2] - 1>>])
DecelTicks(s, n) == decel_ticks[<<s, n>>]

change_speed(speed, accel) == <<"change_speed", speed, accel>>
change_lane(speed, accel, offset) == <<"change_lane", speed, accel, offset>>

\* the left branch without the lower bound
LeftStepUnclamped(on, lane) == IF on THEN lane - LaneStep ELSE lane

\* lines 288-290
LeftStep(on, lane) ==
    IF on /\ lane >= -LaneLimit THEN lane - LaneStep ELSE lane

\* lines 294-296
RightStep(on, lane) ==
    IF on /\ lane <= LaneLimit THEN lane + LaneStep ELSE lane

\* the integration step with the lane branches ahead of the speed branches
IntegrateLaneFirst(s, lane, f) ==
    LET l1 == LeftStep(f.left, lane)
        c3 == IF l1 # lane THEN <<change_lane(ToInt(s), CmdAcceleration, l1)>> ELSE <<>>
        l2 == RightStep(f.right, l1)
        c4 == IF l2 # l1 THEN <<change_lane(ToInt(s), CmdAcceleration, l2)>> ELSE <<>>
        s1 == IF f.accelerate THEN AccelStep(s) ELSE s
        c1 == IF f.accelerate THEN <<change_speed(ToInt(s1), CmdAcceleration)>> ELSE <<>>
        s2 == IF f.decelerate THEN DecelStep(s1) ELSE s1
        c2 == IF f.decelerate THEN <<change_speed(ToInt(s2), CmdAcceleration)>> ELSE <<>>
    IN  [speed |-> s2, lane |-> l2, cmds |-> c3 \o c4 \o c1 \o c2]

\* One whole integration step from speed s, lane and flags f:
\* the new speed, the new lane and the commands sent, in order.
Integrate(s, lane, f) ==
    LET s1 == IF f.accelerate THEN AccelStep(s) ELSE s
        c1 == IF f.accelerate THEN <<change_speed(ToInt(s1), CmdAcceleration)>> ELSE <<>>
        s2 == IF f.decelerate THEN DecelStep(s1) ELSE s1
        c2 == IF f.decelerate THEN <<change_speed(ToInt(s2), CmdAcceleration)>> ELSE <<>>
        l1 == LeftStep(f.left, lane)
        c3 == IF l1 # lane THEN <<change_lane(ToInt(s2), CmdAcceleration, l1)>> ELSE <<>>
        l2 == RightStep(f.right, l1)
        c4 == IF l2 # l1 THEN <<change_lane(ToInt(s2), CmdAcceleration, l2)>> ELSE <<>>
    IN  [speed |-> s2, lane |-> l2, cmds |-> c1 \o c2 \o c3 \o c4]

----------------------------------------------------------------------------
(* The queue: queue.Queue(maxsize=10), line 311. *)

\* a queue that hands out its newest record first
QueueGetNewest(q) == <<q[Len(q)], SubSeq(q, 1, Len(q) - 1)>>

\* in_queue.get: the record returned and the queue left behind
QueueGet(q) == <<Head(q), Tail(q)>>

\* a queue without maxsize never is full
QueueFullNever(q) == FALSE

\* out_queue.put blocks while this holds
QueueFull(q) == Len(q) >= QueueMaxsize

----------------------------------------------------------------------------
(* sig_handler, lines 166-170: event.set(), then sleep and sys.exit(0) in  *)
(* the main thread; the two worker threads keep running.                   *)

sig_handler ==
    /\ event' = TRUE
    /\ UNCHANGED <<pipeline, device, js_vars, c_vars>>

----------------------------------------------------------------------------
(* js_thread, lines 172-179. *)

\* line 173: while not event.is_set()
js_test ==
    /\ js_pc = "test"
    /\ js_pc' = IF event THEN "close" ELSE "read"
    /\ UNCHANGED <<event, pipeline, device, jsdev_open, nread, js_evbuf, c_vars>>

\* lines 174-175: evbuf = jsdev.read(8) returns when the joystick delivers a
\* record (time stamp: its ordinal), or returns b'' at end of file
js_read ==
    /\ js_pc = "read"
    /\ \E e \in device.events \cup {<<>>} :
          IF e = <<>>
          THEN /\ device.eof
               /\ js_evbuf' = <<>>
               /\ js_pc' = "test"
               /\ nread' = nread
          ELSE /\ nread < device.limit
               /\ js_evbuf' = JsEvent(nread + 1, e[1], e[2], e[3])
               /\ js_pc' = "put"
               /\ nread' = nread + 1
    /\ UNCHANGED <<event, pipeline, device, jsdev_open, c_vars>>

\* line 177: out_queue.put(evbuf), blocking while the queue is full
js_put ==
    /\ js_pc = "put"
    /\ ~QueueFull(pipeline)
    /\ pipeline' = Append(pipeline, js_evbuf)
    /\ js_pc' = "test"
    /\ UNCHANGED <<event, device, jsdev_open, nread, js_evbuf, c_vars>>

\* lines 178-179: jsdev.close()
js_close ==
    /\ js_pc = "close"
    /\ jsdev_open' = FALSE
    /\ js_pc' = "done"
    /\ UNCHANGED <<event, pipeline, device, nread, js_evbuf, c_vars>>

js_thread == js_test \/ js_read \/ js_put \/ js_close

----------------------------------------------------------------------------
(* consumer, lines 182-305. *)

\* lines 189-199: car = Overdrive(...), flags cleared
consumer_start ==
    /\ c_pc = "start"
    /\ car' = TRUE
    /\ c_pc' = "test"
    /\ UNCHANGED <<event, pipeline, device, js_vars, evbuf, took, ngot, ctl_vars, cmds, nsteps>>

\* a loop that never looks at event
consumer_test_forever ==
    /\ c_pc = "test"
    /\ c_pc' = "poll"
    /\ UNCHANGED <<event, pipeline, device, js_vars, evbuf, took, ngot, ctl_vars, car, cmds, nsteps>>

\* line 201: while not event.is_set()
consumer_test ==
    /\ c_pc = "test"
    /\ c_pc' = IF event THEN "disconnect" ELSE "poll"
    /\ UNCHANGED <<event, pipeline, device, js_vars, evbuf, took, ngot, ctl_vars, car, cmds, nsteps>>

\* a consumer that waits in in_queue.get() for a record
consumer_get_blocking ==
    /\ c_pc = "poll"
    /\ pipeline # <<>>
    /\ evbuf' = QueueGet(pipeline)[1]
    /\ pipeline' = QueueGet(pipeline)[2]
    /\ took' = TRUE
    /\ ngot' = ngot + 1
    /\ c_pc' = "apply"
    /\ UNCHANGED <<event, device, js_vars, ctl_vars, car, cmds, nsteps>>

\* lines 204-206 and 271-272: take a record if the queue holds one,
\* otherwise sleep 0.2 s and go on to the integration step
consumer_get ==
    /\ c_pc = "poll"
    /\ IF pipeline # <<>>
       THEN /\ evbuf' = QueueGet(pipeline)[1]
            /\ pipeline' = QueueGet(pipeline)[2]
            /\ took' = TRUE
            /\ ngot' = ngot + 1
            /\ c_pc' = "apply"
       ELSE /\ took' = FALSE
            /\ c_pc' = "tick"
            /\ UNCHANGED <<evbuf, pipeline, ngot>>
    /\ UNCHANGED <<event, device, js_vars, ctl_vars, car, cmds, nsteps>>

\* the exit press goes on to event.set() with the car still connected
consumer_apply_keeps_car ==
    /\ c_pc = "apply"
    /\ IF evbuf = <<>>
       THEN /\ c_pc' = "tick"
            /\ UNCHANGED <<ctl_vars, car>>
       ELSE IF Undecodable(evbuf)
       THEN /\ c_pc' = "crashed"
            /\ UNCHANGED <<ctl_vars, car>>
       ELSE IF IsExitPress(unpack(evbuf))
       THEN /\ c_pc' = "exit"
            /\ UNCHANGED <<ctl_vars, car>>
       ELSE LET f == ApplyEvent(unpack(evbuf), Flags(accelerate, decelerate, left, right))
            IN  /\ accelerate' = f.accelerate
                /\ decelerate' = f.decelerate
                /\ left' = f.left
                /\ right' = f.right
                /\ c_pc' = "tick"
                /\ UNCHANGED <<current_speed, current_lane, car>>
    /\ UNCHANGED <<event, pipeline, device, js_vars, evbuf, took, ngot, cmds, nsteps>>

\* lines 207-269: decode the record and apply it to the flags; the exit
\* press deletes the car and goes on to event.set()
consumer_apply ==
    /\ c_pc = "apply"
    /\ IF evbuf = <<>>
       THEN /\ c_pc' = "tick"
            /\ UNCHANGED <<ctl_vars, car>>
       ELSE IF Undecodable(evbuf)
       THEN /\ c_pc' = "crashed"
            /\ UNCHANGED <<ctl_vars, car>>
       ELSE IF IsExitPress(unpack(evbuf))
       THEN /\ car' = FALSE
            /\ c_pc' = "exit"
            /\ UNCHANGED ctl_vars
       ELSE LET f == ApplyEvent(unpack(evbuf), Flags(accelerate, decelerate, left, right))
            IN  /\ accelerate' = f.accelerate
                /\ decelerate' = f.decelerate
                /\ left' = f.left
                /\ right' = f.right
                /\ c_pc' = "tick"
                /\ UNCHANGED <<current_speed, current_lane, car>>
    /\ UNCHANGED <<event, pipeline, device, js_vars, evbuf, took, ngot, cmds, nsteps>>

\* event.set() without the return: the iteration goes on
consumer_exit_no_return ==
    /\ c_pc = "exit"
    /\ event' = TRUE
    /\ c_pc' = "tick"
    /\ UNCHANGED <<pipeline, device, js_vars, evbuf, took, ngot, ctl_vars, car, cmds, nsteps>>

\* lines 232-233: event.set(); return
consumer_exit ==
    /\ c_pc = "exit"
    /\ event' = TRUE
    /\ c_pc' = "done"
    /\ UNCHANGED <<pipeline, device, js_vars, evbuf, took, ngot, ctl_vars, car, cmds, nsteps>>

\* an integration step that sends a command only when the speed or the
\* lane has changed
consumer_tick_quiet ==
    /\ c_pc = "tick"
    /\ \E r \in {Integrate(current_speed, current_lane, Flags(accelerate, decelerate, left, right))} :
           /\ r.speed # current_speed => nsteps < MaxSteps
           /\ nsteps' = IF r.speed # current_speed THEN nsteps + 1 ELSE nsteps
           /\ current_speed' = r.speed
           /\ current_lane' = r.lane
           /\ cmds' = IF r.speed = current_speed /\ r.lane = current_lane THEN <<>> ELSE r.cmds
    /\ c_pc' = "test"
    /\ UNCHANGED <<event, pipeline, device, js_vars, evbuf, took, ngot,
                   accelerate, decelerate, left, right, car>>

\* lines 274-298: the integration step, with the commands it sends
consumer_tick ==
    /\ c_pc = "tick"
    /\ \E r \in {Integrate(current_speed, current_lane, Flags(accelerate, decelerate, left, right))} :
           /\ r.speed # current_speed => nsteps < MaxSteps
           /\ nsteps' = IF r.speed # current_speed THEN nsteps + 1 ELSE nsteps
           /\ current_speed' = r.speed
           /\ current_lane' = r.lane
           /\ cmds' = r.cmds
    /\ c_pc' = "test"
    /\ UNCHANGED <<event, pipeline, device, js_vars, evbuf, took, ngot,
                   accelerate, decelerate, left, right, car>>

\* lines 303-305: del car
consumer_disconnect ==
    /\ c_pc = "disconnect"
    /\ car' = FALSE
    /\ c_pc' = "done"
    /\ UNCHANGED <<event, pipeline, device, js_vars, evbuf, took, ngot, ctl_vars, cmds, nsteps>>

consumer ==
    \/ consumer_start \/ consumer_test \/ consumer_get \/ consumer_apply
    \/ consumer_exit \/ consumer_tick \/ consumer_disconnect

----------------------------------------------------------------------------
(* Exceptions in the consumer: a call to the car raises during the         *)
(* integration step, lines 274-301.  The loop body is one try block whose  *)
(* only handler is `except ValueError` (line 300).                         *)

\* The commands one integration step issues, in order, each with the
\* speed and lane the locals hold when it is called (the assignment comes
\* before the call: lines 275-279, 282-286, 290-292, 296-298).
IssuedCommands(s, lane, f) ==
    LET s1 == IF f.accelerate THEN AccelStep(s) ELSE s
        t1 == IF f.accelerate
              THEN <<[speed |-> s1, lane |-> lane, cmd |-> change_speed(ToInt(s1), CmdAcceleration)]>>
              ELSE <<>>
        s2 == IF f.decelerate THEN DecelStep(s1) ELSE s1
        t2 == IF f.decelerate
              THEN <<[speed |-> s2, lane |-> lane, cmd |-> change_speed(ToInt(s2), CmdAcceleration)]>>
              ELSE <<>>
        l1 == LeftStep(f.left, lane)
        t3 == IF l1 # lane
              THEN <<[speed |-> s2, lane |-> l1, cmd |-> change_lane(ToInt(s2), CmdAcceleration, l1)]>>
              ELSE <<>>
        l2 == RightStep(f.right, l1)
        t4 == IF l2 # l1
              THEN <<[speed |-> s2, lane |-> l2, cmd |-> change_lane(ToInt(s2), CmdAcceleration, l2)]>>
              ELSE <<>>
    IN  t1 \o t2 \o t3 \o t4

\* What a failing call can raise: the exception the handler names, or any
\* other (OSError of a broken connection, for one).
RaisedErrors == {"ValueError", "OSError"}

\* line 300: except ValueError
HandlerCatches(k) == k = "ValueError"

\* lines 274-300: the i-th command of the integration step raises k; the
\* assignments made before the call stay, the rest of the body is skipped
consumer_tick_raises ==
    /\ c_pc = "tick"
    /\ \E tr \in {IssuedCommands(current_speed, current_lane, Flags(accelerate, decelerate, left, right))} :
         \E i \in DOMAIN tr, k \in RaisedErrors :
           /\ tr[i].speed # current_speed => nsteps < MaxSteps
           /\ nsteps' = IF tr[i].speed # current_speed THEN nsteps + 1 ELSE nsteps
           /\ current_speed' = tr[i].speed
           /\ current_lane' = tr[i].lane
           /\ cmds' = [j \in 1..(i - 1) |-> tr[j].cmd]
           /\ c_pc' = IF HandlerCatches(k) THEN "except" ELSE "crashed"
    /\ UNCHANGED <<event, pipeline, device, js_vars, evbuf, took, ngot,
                   accelerate, decelerate, left, right, car>>

\* line 301: the handler prints and the loop goes on
consumer_except ==
    /\ c_pc = "except"
    /\ c_pc' = "test"
    /\ UNCHANGED <<event, pipeline, device, js_vars, evbuf, took, ngot, ctl_vars, car, cmds, nsteps>>

----------------------------------------------------------------------------
(* Exceptions in the reader: jsdev.read(8) raises (the joystick is         *)
(* unplugged: OSError), line 174.  js_thread has no try block.             *)

\* line 174: the read raises; the exception leaves js_thread, so line 179
\* (jsdev.close()) is not run and the thread has ended
js_read_raises ==
    /\ js_pc = "read"
    /\ js_pc' = "raised"
    /\ UNCHANGED <<event, pipeline, device, jsdev_open, nread, js_evbuf, c_vars>>

----------------------------------------------------------------------------
(* Short reads: jsdev.read(8) returns fewer than 8 bytes (the stream ends  *)
(* inside a record), line 174.                                             *)

\* lines 174-175: the read returns the first n bytes of a record, n < 8;
\* the bytes are not empty, so `if evbuf:` lets them through to put
js_read_short ==
    /\ js_pc = "read"
    /\ nread < device.limit
    /\ \E e \in device.events, n \in 1..(RecordSize - 1) :
          js_evbuf' = SubSeq(JsEvent(nread + 1, e[1], e[2], e[3]), 1, n)
    /\ js_pc' = "put"
    /\ nread' = nread + 1
    /\ UNCHANGED <<event, pipeline, device, jsdev_open, c_vars>>

----------------------------------------------------------------------------
(* Initial states and specifications. *)

\* what the joystick sends: <<value, type, number>>
ThumbPress    == <<1, JS_EVENT_BUTTON, 1>>
ThumbRelease  == <<0, JS_EVENT_BUTTON, 1>>
Thumb2Press   == <<1, JS_EVENT_BUTTON, 2>>
Base4Press    == <<1, JS_EVENT_BUTTON, 3>>
TriggerPress  == <<1, JS_EVENT_BUTTON, 0>>
AxisX(v)      == <<v, JS_EVENT_AXIS, 0>>
AxisY(v)      == <<v, JS_EVENT_AXIS, 1>>
\* the synthetic event the driver sends for the y axis on open
AxisYInit     == <<0, JS_EVENT_AXIS + JS_EVENT_INIT, 1>>

Thumb2Release  == <<0, JS_EVENT_BUTTON, 2>>
TriggerRelease == <<0, JS_EVENT_BUTTON, 0>>
Base4Release   == <<0, JS_EVENT_BUTTON, 3>>

ControlEvents ==
    { ThumbPress, ThumbRelease, Thumb2Press, Base4Press, TriggerPress,
      AxisX(-32767), AxisX(32767), AxisX(0),
      AxisY(-32768), AxisY(-29491), AxisY(-29490), AxisY(0),
      AxisY(29490), AxisY(29491), AxisYInit }

QueueEvents == { Thumb2Press, Base4Press }

CancelEvents == { Thumb2Press, AxisX(-32767), Base4Press }

\* lines 119, 183-184, 311-315: the state when the two threads are submitted
InitWith(dev) ==
    /\ event = FALSE
    /\ pipeline = <<>>
    /\ jsdev_open = TRUE
    /\ device = dev
    /\ nread = 0
    /\ js_pc = "test"
    /\ js_evbuf = <<>>
    /\ c_pc = "start"
    /\ evbuf = <<>>
    /\ took = FALSE
    /\ ngot = 0
    /\ current_speed = FromInt(InitialSpeed)
    /\ current_lane = 0
    /\ accelerate = FALSE
    /\ decelerate = FALSE
    /\ left = FALSE
    /\ right = FALSE
    /\ car = FALSE
    /\ cmds = <<>>
    /\ nsteps = 0

Init == InitWith([events |-> ControlEvents, limit |-> MaxReads, eof |-> TRUE])

InitQueue == InitWith([events |-> QueueEvents, limit |-> MaxQReads, eof |-> FALSE])

InitCancel == InitWith([events |-> CancelEvents, limit |-> MaxLReads, eof |-> FALSE])

\* The integration step taken as a function of the control state: the loop
\* entered with any speed in [0, max_speed] and any one of the flag settings
\* the transitions produce.
StepEvents == { ThumbPress, Thumb2Press, Base4Press }
StepSpeeds == { FromInt(0), FromInt(50), FromInt(200), FromInt(300),
                FromInt(InitialSpeed), FromInt(2999), FromInt(max_speed) }

InitStep ==
    /\ event = FALSE
    /\ pipeline = <<>>
    /\ jsdev_open = TRUE
    /\ device = [events |-> StepEvents, limit |-> MaxSReads, eof |-> FALSE]
    /\ nread = 0
    /\ js_pc = "test"
    /\ js_evbuf = <<>>
    /\ c_pc = "start"
    /\ evbuf = <<>>
    /\ took = FALSE
    /\ ngot = 0
    /\ current_speed \in StepSpeeds
    /\ current_lane = 0
    /\ accelerate \in BOOLEAN
    /\ decelerate \in BOOLEAN
    /\ ~(accelerate /\ decelerate)
    /\ left = FALSE
    /\ right = FALSE
    /\ car = FALSE
    /\ cmds = <<>>
    /\ nsteps = 0

Next == sig_handler \/ js_thread \/ consumer

Spec == Init /\ [][Next]_vars

QueueSpec == InitQueue /\ [][Next]_vars

StepSpec == InitStep /\ [][Next]_vars

\* Each step of the consumer thread that can run eventually runs; nothing
\* is assumed of the reader or of the joystick.
CancelSpec == InitCancel /\ [][Next]_vars /\ WF_vars(consumer)

\* Both threads are scheduled: every step of either that stays possible is
\* eventually taken.  jsdev.read returns only when the joystick delivers,
\* which nothing guarantees, so js_read carries no fairness.
FairSpec ==
    /\ InitCancel /\ [][Next]_vars
    /\ WF_vars(consumer)
    /\ WF_vars(js_test) /\ WF_vars(js_put) /\ WF_vars(js_close)

\* The pipeline with a car whose commands can fail.
GatewayEvents == { ThumbPress, Thumb2Press, AxisX(32767), Base4Press }

InitGateway == InitWith([events |-> GatewayEvents, limit |-> MaxGReads, eof |-> FALSE])

GatewayNext == Next \/ consumer_tick_raises \/ consumer_except

GatewaySpec == InitGateway /\ [][GatewayNext]_vars

\* The pipeline with a joystick whose read can fail; the consumer thread
\* is scheduled, nothing is assumed of the reader.
ReadFaultNext == Next \/ js_read_raises

ReadFaultSpec == InitCancel /\ [][ReadFaultNext]_vars /\ WF_vars(consumer)

\* The pipeline with every button of the stick pressed and released, and
\* the stick pushed left and forward.
ButtonEvents ==
    { ThumbPress, ThumbRelease, Thumb2Press, Thumb2Release,
      TriggerPress, TriggerRelease, Base4Press, Base4Release,
      AxisX(-32767), AxisY(-32767) }

InitButton == InitWith([events |-> ButtonEvents, limit |-> MaxBReads, eof |-> FALSE])

ButtonSpec == InitButton /\ [][Next]_vars

\* The pipeline with the stick moved along x: both ends of the range, one
\* step inside each end, the centre, and the centre as the driver reports
\* it on open.
AxisXInit == <<0, JS_EVENT_AXIS + JS_EVENT_INIT, 0>>

AxisEvents ==
    { AxisX(-32768), AxisX(-32767), AxisX(-32766), AxisX(0), AxisXInit,
      AxisX(32766), AxisX(32767), ThumbPress, Base4Press }

InitAxis == InitWith([events |-> AxisEvents, limit |-> MaxAReads, eof |-> FALSE])

AxisSpec == InitAxis /\ [][Next]_vars

\* The pipeline with a stream that can end, and can end inside a record.
InitShort == InitWith([events |-> CancelEvents, limit |-> MaxLReads, eof |-> TRUE])

ShortReadNext == Next \/ js_read_short

ShortReadSpec == InitShort /\ [][ShortReadNext]_vars

\* The pipeline from its start and from the middle of a long run: after
\* thumb2 was pressed and two integration steps ran (400, 266.7, 0), thumb
\* was pressed and five steps ran (750, ... 2288.1), thumb2 was pressed
\* again and one step ran, all three records having been read and applied
\* (nsteps counts from there).
SpeedEvents == { ThumbPress, Thumb2Press, AxisX(-32767), Base4Press }
LongRunEvents == { AxisX(-32767), Base4Press }
LongRunPresses == <<Thumb2Press, ThumbPress, Thumb2Press>>
LongRunSpeed == DecelTicks(AccelTicks(DecelTicks(FromInt(InitialSpeed), 2), 5), 1)

InitLongRun ==
    /\ event = FALSE
    /\ pipeline = <<>>
    /\ jsdev_open = TRUE
    /\ device = [events |-> LongRunEvents,
                 limit |-> Len(LongRunPresses) + MaxVReads, eof |-> FALSE]
    /\ nread = Len(LongRunPresses)
    /\ js_pc = "test"
    /\ js_evbuf = JsEvent(nread, Thumb2Press[1], Thumb2Press[2], Thumb2Press[3])
    /\ c_pc = "test"
    /\ evbuf = js_evbuf
    /\ took = TRUE
    /\ ngot = Len(LongRunPresses)
    /\ current_speed = LongRunSpeed
    /\ current_lane = 0
    /\ accelerate = FALSE
    /\ decelerate = TRUE
    /\ left = FALSE
    /\ right = FALSE
    /\ car = TRUE
    /\ cmds = <<change_speed(ToInt(LongRunSpeed), CmdAcceleration)>>
    /\ nsteps = 0

InitSpeed ==
    \/ InitWith([events |-> SpeedEvents, limit |-> MaxVReads, eof |-> FALSE])
    \/ InitLongRun

SpeedSpec == InitSpeed /\ [][Next]_vars


----------------------------------------------------------------------------
(* Properties. *)

\* the consumer has decoded the record it took in this iteration
Decoded == took /\ evbuf # <<>> /\ ~Undecodable(evbuf)
\* the record just applied is an event of the y axis
AppliedAxisY ==
    /\ c_pc = "tick" /\ Decoded
    /\ IsAxis(unpack(evbuf)) /\ AxisName(unpack(evbuf)) = "y"
\* a step that runs the integration step
TickStep == c_pc = "tick" /\ c_pc' = "test"
\* the exit press has been applied in this iteration
ExitTaken == c_pc \in {"exit", "done"} /\ Decoded /\ IsExitPress(unpack(evbuf))

\* C1: after the consumer applies a y-axis event of normalised value
\* v = value/32767, whatever the flags were: v <= -0.9 gives accelerate and
\* not decelerate; v >= 0.9 and every other v give decelerate and not
\* accelerate.
C1_AxisYSetsThrottle ==
    AppliedAxisY =>
        IF 10 * unpack(evbuf).value <= -9 * AxisScale
        THEN accelerate /\ ~decelerate
        ELSE decelerate /\ ~accelerate

\* a centred y event has been applied after the car had been accelerating
C1_Witness ==
    /\ AppliedAxisY
    /\ unpack(evbuf).value = 0
    /\ ngot = 2
    /\ FGeq(current_speed, FromInt(1000))
    /\ decelerate /\ ~accelerate

\* C2: an integration step run with accelerate set never lowers
\* current_speed and never takes it above max_speed; at max_speed it leaves
\* it at max_speed; nothing but an integration step changes current_speed.
C2_AccelMonotoneBounded ==
    /\ [][(TickStep /\ accelerate) =>
            /\ FLeq(current_speed, current_speed')
            /\ FLeq(current_speed', FromInt(max_speed))
            /\ (current_speed = FromInt(max_speed) => current_speed' = FromInt(max_speed))]_vars
    /\ [][~TickStep => current_speed' = current_speed]_vars

\* an accelerate step has run at max_speed and sent max_speed again
C2_Witness ==
    /\ c_pc = "test" /\ accelerate /\ nsteps = 0
    /\ current_speed = FromInt(max_speed)
    /\ cmds = <<change_speed(max_speed, CmdAcceleration)>>

\* C3: an integration step run with decelerate set never raises
\* current_speed; when the reduced value current_speed - current_speed/3 is
\* at most 200 the speed becomes exactly 0, and from 0 it stays 0.
C3_DecelMonotoneSnaps ==
    [][(TickStep /\ decelerate) =>
         /\ FLeq(current_speed', current_speed)
         /\ (3 * SnapThreshold * current_speed[2] >= 2 * current_speed[1]
               => current_speed' = FromInt(0))
         /\ (current_speed = FromInt(0) => current_speed' = FromInt(0))]_vars

\* a decelerate step has snapped a positive speed to 0
C3_Witness ==
    /\ c_pc = "test" /\ decelerate /\ nsteps > 0
    /\ current_speed = FromInt(0)
    /\ cmds = <<change_speed(0, CmdAcceleration)>>

\* the last command of the integration step just taken
LastCmd == cmds[Len(cmds)]
SentLane == cmds # <<>> /\ LastCmd[1] = "change_lane"

\* C4: with left set an integration step lowers current_lane by 30 and
\* sends change_lane(int(current_speed), 2000, new lane) exactly when
\* current_lane >= -100 before it, and otherwise leaves the lane and sends
\* no lane command; with right set, the same upwards while
\* current_lane <= 100; current_lane always lies in [-130, 130].
C4_LaneClamped ==
    /\ [][(TickStep /\ left) =>
            IF current_lane >= -100
            THEN /\ current_lane' = current_lane - 30
                 /\ SentLane'
                 /\ LastCmd' = <<"change_lane", ToInt(current_speed'), 2000, current_lane'>>
            ELSE current_lane' = current_lane /\ ~SentLane']_vars
    /\ [][(TickStep /\ right) =>
            IF current_lane <= 100
            THEN /\ current_lane' = current_lane + 30
                 /\ SentLane'
                 /\ LastCmd' = <<"change_lane", ToInt(current_speed'), 2000, current_lane'>>
            ELSE current_lane' = current_lane /\ ~SentLane']_vars
    /\ [](current_lane >= -130 /\ current_lane <= 130)

\* the left step from lane 0 has sent offset -30
C4_Witness ==
    /\ c_pc = "test" /\ left /\ current_lane = -30
    /\ cmds = <<change_lane(InitialSpeed, CmdAcceleration, -30)>>

\* the lane has stopped at the lower clamp
C4_ClampReached == c_pc = "test" /\ left /\ current_lane = -120 /\ cmds = <<>>

\* a record of the exit press
IsExitRecord(b) == b # <<>> /\ ~Undecodable(b) /\ IsExitPress(unpack(b))

\* C5: once set, event stays set; the step that follows the exit press
\* sets it; and once an exit press has been applied, no later step (whatever
\* further records, exit presses included, the joystick delivers) changes
\* the control state, the commands sent or the car.
C5_SignalLatched ==
    /\ [][event => event']_vars
    /\ [][(c_pc = "exit" /\ c_pc' # "exit") => (event' /\ c_pc' = "done")]_vars
    /\ [][ExitTaken => (ExitTaken' /\ UNCHANGED <<ctl_vars, cmds, car>>)]_vars

\* the exit press set the signal, and a second exit press was delivered later
C5_Witness ==
    /\ ExitTaken /\ c_pc = "done" /\ event /\ ~car
    /\ pipeline # <<>> /\ IsExitRecord(pipeline[1])

\* the time stamp of the record the consumer holds (0 before the first)
HeldTime == IF ngot = 0 THEN 0 ELSE unpack(evbuf).time_val

\* C6: the consumer takes at most one record per iteration, each one read
\* from the device later than the one before it, and applies it before it
\* takes the next.
C6_FifoOrder ==
    /\ [][ngot' # ngot =>
            /\ ngot' = ngot + 1
            /\ c_pc = "poll" /\ c_pc' = "apply"
            /\ unpack(evbuf').time_val > HeldTime]_vars
    /\ [][c_pc = "apply" => (evbuf' = evbuf /\ ngot' = ngot)]_vars

\* the third record was taken while two more were waiting behind it
C6_Witness ==
    /\ c_pc = "apply" /\ ngot = 3 /\ Len(pipeline) >= 2
    /\ unpack(evbuf).time_val = 3

\* the time stamps of the records in the queue
QueueTimes == [i \in DOMAIN pipeline |-> unpack(pipeline[i]).time_val]

\* C7: the queue never holds more than 10 records, and every record read
\* so far is exactly one of: handed to the consumer (the first ngot of
\* them), in the queue in read order, or held by the reader in put.
C7_BackpressureNoLoss ==
    /\ Len(pipeline) <= QueueMaxsize
    /\ HeldTime = ngot
    /\ QueueTimes = [i \in DOMAIN pipeline |-> ngot + i]
    /\ IF js_pc = "put"
       THEN nread = ngot + Len(pipeline) + 1 /\ unpack(js_evbuf).time_val = nread
       ELSE nread = ngot + Len(pipeline)

\* the reader is stalled in put on a full queue while the consumer runs
C7_Witness ==
    /\ Len(pipeline) = QueueMaxsize /\ js_pc = "put"
    /\ c_pc \in {"test", "poll", "apply", "tick"}
    /\ ngot = 1

\* C8: after event is set the reader always goes on to close the device.
C8_ReaderReleasesDevice == event ~> ~jsdev_open

\* C9: after event is set the consumer reaches the end of its function with
\* the car deleted, and once it has seen event set at the top of the loop it
\* never goes back into the loop body.
C9_ConsumerStops ==
    /\ event ~> (c_pc = "done" /\ ~car)
    /\ [][(c_pc \in {"disconnect", "exit", "done"}) =>
            (c_pc' \in {"disconnect", "exit", "done"})]_vars
    /\ [][(c_pc = "test" /\ event) => (c_pc' \in {"test", "disconnect"})]_vars

\* the interrupt set the signal and the consumer left through the loop test
C9_Witness == event /\ c_pc = "done" /\ ~car /\ ~ExitTaken /\ ngot = 1 /\ pipeline # <<>>

\* C10 as stated: the consumer never waits for the reader, every iteration
\* (after taking a record or idling) goes on to the integration step, and
\* integration steps recur until the loop ends.
C10_EveryIterationTicks ==
    /\ [][(c_pc = "apply" /\ c_pc' # "apply") => c_pc' = "tick"]_vars
    /\ [][(c_pc = "poll" /\ c_pc' # "poll") =>
            IF pipeline = <<>> THEN c_pc' = "tick" ELSE c_pc' = "apply"]_vars
    /\ (c_pc = "poll") ~> (c_pc = "tick")
    /\ []<>(c_pc \in {"tick", "done"})

\* C10: the consumer never waits for the reader: from the queue test it
\* always reaches the integration step, or the exit press it has taken ends
\* the loop; every iteration but the one that applies the exit press runs
\* the integration step; and integration steps recur until the loop ends.
C10_NeverBlocks ==
    /\ (c_pc = "poll") ~> (c_pc = "tick" \/ ExitTaken)
    /\ [][(c_pc = "apply" /\ c_pc' # "apply" /\ ~IsExitRecord(evbuf)) => c_pc' = "tick"]_vars
    /\ [][(c_pc = "poll" /\ c_pc' # "poll") =>
            IF pipeline = <<>> THEN c_pc' = "tick" ELSE c_pc' = "apply"]_vars
    /\ []<>(c_pc \in {"tick", "done"})

\* an idle iteration reached the integration step with the queue empty and
\* the reader blocked in read on a silent joystick
C10_Witness ==
    /\ c_pc = "tick" /\ ~took /\ pipeline = <<>>
    /\ js_pc = "read" /\ nread = device.limit /\ ngot = nread /\ ~event

\* the consumer thread was ended by an exception
Crashed == c_pc = "crashed"
\* a step in which a command of the integration step raises
TickRaises == c_pc = "tick" /\ c_pc' \in {"except", "crashed"}

\* C11: no exception ends the consumer loop: when a command to the car (or
\* anything else in the integration step) raises, the consumer goes on to
\* the next loop test with speed, lane and flags as the interrupted step
\* left them, and the next integration step sends the commands that follow
\* from that state.
C11_LoopSurvivesErrors ==
    /\ [][TickRaises => c_pc' = "except"]_vars
    /\ [][(c_pc = "except" /\ c_pc' # "except") =>
            (c_pc' = "test" /\ UNCHANGED ctl_vars)]_vars
    /\ [][TickStep =>
            cmds' = Integrate(current_speed, current_lane,
                              Flags(accelerate, decelerate, left, right)).cmds]_vars
    /\ [](~Crashed)

\* the reader thread was ended by an exception of jsdev.read
ReaderFailed == js_pc = "raised"

\* C12: when jsdev.read fails the reader closes the device, ends and puts
\* nothing more into the queue; the consumer is not ended by it: it takes
\* the records already queued, in the order read, until none is left (or
\* until event is set), and leaves its loop only with event set.
C12_ReadFailureFatalToReaderOnly ==
    /\ [](ReaderFailed => ~jsdev_open)
    /\ [][ReaderFailed =>
            /\ ReaderFailed' /\ nread' = nread
            /\ (pipeline' = pipeline \/ pipeline' = Tail(pipeline))]_vars
    /\ [](~Crashed)
    /\ [][ngot' # ngot => unpack(evbuf').time_val = ngot + 1]_vars
    /\ ReaderFailed ~> (ngot = nread \/ event)
    /\ [](c_pc \in {"disconnect", "done"} => event)

\* C12 without the closing of the device: what the consumer does after the
\* reader has failed
C12_ConsumerDrainsAfterFailure ==
    /\ [][ReaderFailed =>
            /\ ReaderFailed' /\ nread' = nread
            /\ (pipeline' = pipeline \/ pipeline' = Tail(pipeline))]_vars
    /\ [](~Crashed)
    /\ [][ngot' # ngot => unpack(evbuf').time_val = ngot + 1]_vars
    /\ ReaderFailed ~> (ngot = nread \/ event)
    /\ [](c_pc \in {"disconnect", "done"} => event)

\* the read failed with three records queued, the consumer has taken them
\* all and idles
C12_Drained ==
    /\ ReaderFailed /\ nread = 3 /\ ngot = 3 /\ pipeline = <<>>
    /\ c_pc = "tick" /\ ~took /\ ~event

\* an integration step of an iteration that found the queue empty
IdleTick == TickStep /\ ~took

\* C13: with the queue empty and decelerate set, current_speed 50 becomes 0
\* at an idle integration step, which sends change_speed(0, 2000), and every
\* further idle step leaves it 0 and sends change_speed(0, 2000) again (so
\* it is 0 after 2 steps and on the remaining steps of 5); the flags do not
\* change without an event; and from every speed the run reaches a bounded
\* number of decelerate steps in a row ends at 0.
C13_DecelReachesZero ==
    /\ [][(IdleTick /\ decelerate /\ ~accelerate
             /\ current_speed \in {FromInt(50), FromInt(0)}) =>
               /\ current_speed' = FromInt(0)
               /\ cmds' = <<change_speed(0, CmdAcceleration)>>]_vars
    /\ [][(TickStep /\ decelerate /\ ~accelerate) =>
               current_speed' = DecelTicks(current_speed, 1)]_vars
    /\ [][c_pc # "apply" => UNCHANGED <<accelerate, decelerate>>]_vars
    /\ [](DecelTicks(current_speed, MaxDecelTicks) = FromInt(0))
    /\ [](current_speed = FromInt(50) => DecelTicks(current_speed, 2) = FromInt(0))

\* no record was ever read, one idle decelerate step has taken the speed to
\* 0 and the next idle iteration is about to run the step again at 0
C13_Witness ==
    /\ c_pc = "tick" /\ ~took /\ nread = 0 /\ pipeline = <<>>
    /\ decelerate /\ ~accelerate
    /\ current_speed = FromInt(0) /\ nsteps = 1
    /\ cmds = <<change_speed(0, CmdAcceleration)>>

\* the start of the scenario: an idle step about to run at speed 50
C13_ScenarioStart ==
    /\ c_pc = "tick" /\ ~took /\ nread = 0 /\ pipeline = <<>>
    /\ decelerate /\ ~accelerate /\ current_speed = FromInt(50) /\ nsteps = 0

\* the record is a press of the button named name
IsPressOf(b, name) ==
    /\ b # <<>> /\ ~Undecodable(b)
    /\ IsButton(unpack(b)) /\ unpack(b).value # 0 /\ ButtonName(unpack(b)) = name
\* the consumer has applied a thumb press in this iteration and is about
\* to run the integration step
AppliedThumbPress == c_pc = "tick" /\ took /\ IsPressOf(evbuf, "thumb")
\* the speed commands among the commands c
SpeedCmds(c) == SelectSeq(c, LAMBDA x : x[1] = "change_speed")
\* previous + (max_speed - previous)/4, capped at max_speed
AccelTarget(previous) ==
    LET t == FAdd(previous, FDivInt(FSub(FromInt(max_speed), previous), 4))
    IN  IF FGeq(t, FromInt(max_speed)) THEN FromInt(max_speed) ELSE t

\* C14 as stated: once a thumb press is taken, the integration step of the
\* same iteration runs with accelerate and not decelerate and sends exactly
\* one speed command, whose speed is previous + (max_speed - previous)/4
\* capped at max_speed.
C14_PressThenExactSpeed ==
    /\ [][(c_pc = "apply" /\ c_pc' # "apply" /\ IsPressOf(evbuf, "thumb")) =>
            AppliedThumbPress']_vars
    /\ [](AppliedThumbPress => (accelerate /\ ~decelerate))
    /\ [][(TickStep /\ AppliedThumbPress) =>
            /\ current_speed' = AccelTarget(current_speed)
            /\ Len(SpeedCmds(cmds')) = 1
            /\ FromInt(SpeedCmds(cmds')[1][2]) = AccelTarget(current_speed)]_vars

\* C14: once a thumb press is taken, the integration step of the same
\* iteration runs with accelerate and not decelerate, sets current_speed to
\* previous + (max_speed - previous)/4 capped at max_speed, and sends
\* exactly one speed command, change_speed(int(current_speed), 2000): the
\* speed sent is the new speed with its fraction cut off.
C14_PressThenTruncatedSpeed ==
    /\ [][(c_pc = "apply" /\ c_pc' # "apply" /\ IsPressOf(evbuf, "thumb")) =>
            AppliedThumbPress']_vars
    /\ [](AppliedThumbPress => (accelerate /\ ~decelerate))
    /\ [][(TickStep /\ AppliedThumbPress) =>
            /\ current_speed' = AccelTarget(current_speed)
            /\ SpeedCmds(cmds') =
                 <<change_speed(ToInt(AccelTarget(current_speed)), CmdAcceleration)>>]_vars

\* the step after a thumb press has taken the speed from 50 to 787.5 and
\* sent 787
C14_Witness ==
    /\ c_pc = "test" /\ took /\ IsPressOf(evbuf, "thumb")
    /\ accelerate /\ ~decelerate
    /\ current_speed = <<1575, 2>>
    /\ cmds = <<change_speed(787, CmdAcceleration)>>

\* the record is a release of the button named name
IsReleaseOf(b, name) ==
    /\ b # <<>> /\ ~Undecodable(b)
    /\ IsButton(unpack(b)) /\ unpack(b).value = 0 /\ ButtonName(unpack(b)) = name
\* the buttons of the stick with no branch of their own
OtherButtons == {button_map[i] : i \in DOMAIN button_map} \ {"thumb", "thumb2", "base4"}
\* the step in which the consumer applies the record it took
ApplyStep == c_pc = "apply" /\ c_pc' # "apply"

\* C15: applying a thumb press gives accelerate and not decelerate; a thumb
\* release, a thumb2 press and a thumb2 release each give decelerate and not
\* accelerate; a press or release of a button other than thumb, thumb2 and
\* base4 leaves the four flags, current_speed and current_lane unchanged.
C15_ButtonTransitions ==
    /\ [][(ApplyStep /\ IsPressOf(evbuf, "thumb")) => (accelerate' /\ ~decelerate')]_vars
    /\ [][(ApplyStep /\ IsReleaseOf(evbuf, "thumb")) => (~accelerate' /\ decelerate')]_vars
    /\ [][(ApplyStep /\ (IsPressOf(evbuf, "thumb2") \/ IsReleaseOf(evbuf, "thumb2"))) =>
            (~accelerate' /\ decelerate')]_vars
    /\ [][(ApplyStep /\ \E name \in OtherButtons :
                           IsPressOf(evbuf, name) \/ IsReleaseOf(evbuf, name)) =>
            UNCHANGED ctl_vars]_vars

\* a thumb release has been applied after one accelerate step
C15_Witness ==
    /\ c_pc = "tick" /\ took /\ IsReleaseOf(evbuf, "thumb")
    /\ ~accelerate /\ decelerate
    /\ current_speed = FromInt(1050)

\* a trigger release has been applied and left the accelerating state as
\* it was
C15_OtherButtonApplied ==
    /\ c_pc = "tick" /\ took /\ IsReleaseOf(evbuf, "trigger")
    /\ accelerate /\ ~decelerate /\ current_speed = FromInt(1050)

\* the record is an event of the x axis
IsAxisXRecord(b) ==
    /\ b # <<>> /\ ~Undecodable(b)
    /\ IsAxis(unpack(b)) /\ ~IsButton(unpack(b)) /\ AxisName(unpack(b)) = "x"

\* C16: applying an x event of value/32767 <= -1 gives left and not right;
\* of value/32767 >= 1 gives right and not left; every other x event leaves
\* left and right as they were; no x event changes accelerate or
\* decelerate; and once left or right is set, one of them stays set.
C16_AxisXLatches ==
    /\ [][(ApplyStep /\ IsAxisXRecord(evbuf)) =>
            /\ (unpack(evbuf).value <= -AxisScale => (left' /\ ~right'))
            /\ (unpack(evbuf).value >= AxisScale => (right' /\ ~left'))
            /\ ((unpack(evbuf).value > -AxisScale /\ unpack(evbuf).value < AxisScale)
                  => UNCHANGED <<left, right>>)
            /\ UNCHANGED <<accelerate, decelerate>>]_vars
    /\ [][(left \/ right) => (left' \/ right')]_vars

\* the stick went full left, then back to the centre: left is still set
\* and the lane keeps moving
C16_Witness ==
    /\ c_pc = "tick" /\ took /\ ngot = 2
    /\ IsAxisXRecord(evbuf) /\ unpack(evbuf).value = 0
    /\ left /\ ~right /\ current_lane = -30

\* C17: the step that applies a base4 press deletes the car and does
\* nothing else (event is not set by it); the consumer's next step sets
\* event, with the car already deleted, and ends the function; from the
\* exit press on no integration step runs, no command is sent, the control
\* state does not change and no further record is taken from the queue;
\* an integration step only ever runs with the car connected.
C17_ExitOrdered ==
    /\ [][(ApplyStep /\ IsExitRecord(evbuf)) =>
            (car /\ ~car' /\ c_pc' = "exit" /\ UNCHANGED <<event, ctl_vars, cmds>>)]_vars
    /\ [][(c_pc = "exit" /\ c_pc' # "exit") => (~car /\ event' /\ c_pc' = "done")]_vars
    /\ [][ExitTaken =>
            /\ (c_pc' \in {"exit", "done"})
            /\ UNCHANGED <<ctl_vars, cmds, car, evbuf, ngot>>]_vars
    /\ [][TickStep => (car /\ car')]_vars

\* the exit press was taken after a decelerate step had sent a command;
\* the consumer is gone and ten records stay in the queue for ever
C17_Witness ==
    /\ ExitTaken /\ c_pc = "done" /\ event /\ ~car
    /\ ngot = 2 /\ Len(pipeline) = QueueMaxsize
    /\ cmds # <<>> /\ decelerate

\* C18: an empty read puts nothing into the queue and neither does a
\* short one, so every record in the queue (and every record the consumer
\* holds) has 8 bytes; and a record of another length taken from the queue
\* is dropped: the consumer goes on to the integration step with its
\* control state unchanged and is not ended by it.
C18_WrongLengthHarmless ==
    /\ [][(js_pc = "read" /\ js_pc' # "read" /\ Len(js_evbuf') # RecordSize) =>
            (js_pc' = "test" /\ pipeline' = pipeline)]_vars
    /\ [](\A i \in DOMAIN pipeline : Len(pipeline[i]) = RecordSize)
    /\ [][(ApplyStep /\ Len(evbuf) # RecordSize) =>
            (c_pc' = "tick" /\ UNCHANGED ctl_vars)]_vars
    /\ [](~Crashed)

\* C18 for the empty read alone: nothing is put and the reader goes back
\* to its loop test
C18_EmptyReadSkipped ==
    [][(js_pc = "read" /\ js_pc' # "read" /\ js_evbuf' = <<>>) =>
         (js_pc' = "test" /\ pipeline' = pipeline)]_vars

\* a record of 7 bytes was taken from the queue and ended the consumer
C18_ShortRecordEndsConsumer == Crashed /\ took /\ Len(evbuf) = 7

\* the lane commands among the commands c
LaneCmds(c) == SelectSeq(c, LAMBDA x : x[1] = "change_lane")

\* C19: accelerate and decelerate are never both set and left and right
\* are never both set; an integration step sends at most one speed command
\* and at most one lane command, the speed command first; and while all
\* four flags are still clear no command has been sent.
C19_FlagsExclusive ==
    /\ ~(accelerate /\ decelerate)
    /\ ~(left /\ right)
    /\ Len(SpeedCmds(cmds)) <= 1
    /\ Len(LaneCmds(cmds)) <= 1
    /\ cmds = SpeedCmds(cmds) \o LaneCmds(cmds)
    /\ ((~accelerate /\ ~decelerate /\ ~left /\ ~right) => cmds = <<>>)

\* an integration step with accelerate and left set has sent a speed
\* command and then a lane command
C19_Witness ==
    /\ c_pc = "test" /\ accelerate /\ left
    /\ Len(cmds) = 2
    /\ cmds[1][1] = "change_speed" /\ cmds[2][1] = "change_lane"

\* the speeds carried by the commands of the last integration step
SentSpeeds == {cmds[i][2] : i \in DOMAIN cmds}

\* C20 as stated: current_speed is 0 or lies in (200, 3000], and so does
\* every speed sent in a command.
C20_SentSpeedAboveBand ==
    /\ \/ current_speed = FromInt(0)
       \/ ~FLeq(current_speed, FromInt(SnapThreshold)) /\ FLeq(current_speed, FromInt(max_speed))
    /\ \A v \in SentSpeeds : v = 0 \/ (v > SnapThreshold /\ v <= max_speed)

\* C20: current_speed is 0 or lies in (200, 3000]; every speed sent in a
\* command is current_speed with its fraction cut off (v <= current_speed
\* < v + 1), so it is 0 or an integer from 200 to 3000, 200 included.
C20_SentSpeedTruncated ==
    /\ \/ current_speed = FromInt(0)
       \/ ~FLeq(current_speed, FromInt(SnapThreshold)) /\ FLeq(current_speed, FromInt(max_speed))
    /\ \A v \in SentSpeeds :
          /\ FLeq(FromInt(v), current_speed) /\ ~FLeq(FromInt(v + 1), current_speed)
          /\ (v = 0 \/ (v >= SnapThreshold /\ v <= max_speed))

\* decelerating, the speed has come to 200.87 and the step has sent 200,
\* in a speed command and in a lane command
C20_Witness ==
    /\ c_pc = "test" /\ decelerate /\ left
    /\ ~FLeq(current_speed, FromInt(SnapThreshold))
    /\ ~FLeq(FromInt(SnapThreshold + 1), current_speed)
    /\ Len(cmds) = 2 /\ SentSpeeds = {SnapThreshold}

====
